---- MODULE Spec2Model ----
(***************************************************************************)
(* AeroStack server: NACA 4-digit coordinate generator (memoized), the     *)
(* thin-airfoil solver, the vortex-panel solver's geometry stitching and   *)
(* the two request handlers (analysis, DXF export).                        *)
(*                                                                         *)
(* Floating-point numbers are modelled as fixed-point integers with six    *)
(* decimal places: the integer v stands for the real v / SCALE.           *)
(***************************************************************************)
EXTENDS Integers, Sequences, FiniteSets, TLC

(***************************************************************************)
(* Fixed-point arithmetic.                                                 *)
(*                                                                         *)
(* Only({e(x) : x \in {v}}) is "let x = v in e(x)" with v evaluated once:  *)
(* the operators below bind their arguments this way before using them     *)
(* more than once.                                                         *)
(***************************************************************************)
Only(S) == CHOOSE r \in S : TRUE

KILO == 10 * 100
SCALE == KILO * KILO

Abs(a) == IF a < 0 THEN -a ELSE a

Sgn(a) == IF a < 0 THEN -1 ELSE 1

\* |a| * |b| / SCALE without leaving 32 bits (each factor below 46000 * KILO).
MulAbs(a, b) ==
  (a \div KILO) * (b \div KILO)
  + ((a \div KILO) * (b % KILO) + (a % KILO) * (b \div KILO)) \div KILO
  + ((a % KILO) * (b % KILO)) \div SCALE

\* a * b on fixed-point numbers.
Mul(a, b) == Only({Sgn(x) * Sgn(y) * MulAbs(Abs(x), Abs(y)) : x \in {a}, y \in {b}})

\* |a| / |b| on fixed-point numbers, b > 0, by long division in base 100
\* (divisors below 21 * SCALE).
DivAbs(a, b) ==
  Only({Only({Only({(a \div b) * SCALE + ((r0 * 100) \div b) * 10000
                    + ((r1 * 100) \div b) * 100 + (r2 * 100) \div b
                    : r2 \in {(r1 * 100) % b}})
              : r1 \in {(r0 * 100) % b}})
        : r0 \in {a % b}})

\* a / b on fixed-point numbers.
Div(a, b) == Only({Sgn(x) * Sgn(y) * DivAbs(Abs(x), Abs(y)) : x \in {a}, y \in {b}})

\* Conversion of a Python int to a float.
Float(n) == n * SCALE

\* the smallest r in [lo, hi] with r * r >= v.
RECURSIVE SqrtBisect(_, _, _)
SqrtBisect(v, lo, hi) ==
  IF hi - lo <= 1 THEN (IF MulAbs(lo, lo) >= v THEN lo ELSE hi)
  ELSE Only({IF MulAbs(mid, mid) >= v THEN SqrtBisect(v, lo, mid) ELSE SqrtBisect(v, mid, hi)
             : mid \in {(lo + hi) \div 2}})

\* np.sqrt on a non-negative fixed-point number.
Sqrt(v) == Only({SqrtBisect(x, 0, IF x > SCALE THEN x ELSE SCALE) : x \in {v}})

\* np.pi / math.pi and its multiples.
PI == 3141593
HALF_PI == PI \div 2
TWO_PI == 2 * PI

\* sum of the alternating power series whose first term is term and whose
\* k-th factor is a2 / ((2k + off - 1) (2k + off)).
RECURSIVE Series(_, _, _, _, _)
Series(a2, term, k, off, acc) ==
  IF k > 9 \/ term = 0 THEN acc
  ELSE Only({Series(a2, next, k + 1, off, sum)
             : next \in {-(MulAbs(Abs(term), a2) \div ((2 * k + off - 1) * (2 * k + off))) * Sgn(term)},
               sum \in {acc - (MulAbs(Abs(term), a2) \div ((2 * k + off - 1) * (2 * k + off))) * Sgn(term)}})

\* cos and sin on [-pi/2, pi/2] by their power series.
CosSeries(a) == Only({Series(a2, SCALE, 1, 0, SCALE) : a2 \in {MulAbs(Abs(a), Abs(a))}})

SinSeries(a) == Only({Series(a2, a, 1, 1, a) : a2 \in {MulAbs(Abs(a), Abs(a))}})

\* np.cos / np.sin on [-pi, pi].
Cos(a) == Only({IF b > HALF_PI THEN -CosSeries(PI - b) ELSE CosSeries(b) : b \in {Abs(a)}})

Sin(a) ==
  Only({Sgn(x) * (IF Abs(x) > HALF_PI THEN SinSeries(PI - Abs(x)) ELSE SinSeries(Abs(x)))
        : x \in {a}})

\* One Newton step on sin(th) - d cos(th) = 0.
AtanStep(d, th) ==
  Only({t - Div(s - Mul(d, c), c + Mul(d, s)) : t \in {th}, s \in {Sin(th)}, c \in {Cos(th)}})

\* arctan on [0, 1]: a rational first guess (error below 0.005), then two
\* Newton steps.
AtanUnit(d) ==
  Only({AtanStep(d, t1)
        : t1 \in {Only({AtanStep(d, t0) : t0 \in {Div(d, SCALE + Mul(280000, Mul(d, d)))}})}})

\* np.arctan.
Atan(d) ==
  Only({IF x = 0 THEN 0
        ELSE IF Abs(x) <= SCALE THEN Sgn(x) * AtanUnit(Abs(x))
        ELSE Sgn(x) * (HALF_PI - Only({AtanUnit(r) : r \in {Div(SCALE, Abs(x))}}))
        : x \in {d}})

Acos(c) ==
  Only({IF x >= SCALE THEN 0
        ELSE IF x <= -SCALE THEN PI
        ELSE IF x >= 0 THEN 2 * Atan(Sqrt(Div(SCALE - x, SCALE + x)))
        ELSE PI - 2 * Atan(Sqrt(Div(SCALE + x, SCALE - x)))
        : x \in {c}})

Radians(deg) == Only({Sgn(d) * (MulAbs(Abs(d), PI) \div 180) : d \in {deg}})

Degrees(rad) == Div(rad * 180, PI)

\* np.isclose(a, b) with its defaults rtol = 1e-5, atol = 1e-8:
\* |a - b| <= atol + rtol * |b|, asymmetric in a and b.
IsClose(a, b) == Abs(a - b) <= (KILO + Abs(b)) \div (100 * KILO)

(***************************************************************************)
(* Arrays are sequences.  AsArray makes the array with entries f[1..n] an  *)
(* explicit tuple, computed once.  Python's a[::-1], a[1:], a[1:-1], a[-1]. *)
(***************************************************************************)
AsArray(f, n) == SubSeq(f, 1, n)

Reverse(s) == [i \in 1..Len(s) |-> s[Len(s) + 1 - i]]

DropFirst(s) == IF Len(s) = 0 THEN << >> ELSE SubSeq(s, 2, Len(s))

DropFirstLast(s) == IF Len(s) <= 2 THEN << >> ELSE SubSeq(s, 2, Len(s) - 1)

Last(s) == s[Len(s)]

\* An optional list argument: Python's None, or a list.
None == [is_none |-> TRUE, list |-> << >>]

List(values) == [is_none |-> FALSE, list |-> values]

(***************************************************************************)
(* airfoils/naca.py                                                        *)
(***************************************************************************)
Digits == {"0", "1", "2", "3", "4", "5", "6", "7", "8", "9"}

\* int(c) for one decimal digit.
DigitValue(c) ==
  CASE c = "0" -> 0 [] c = "1" -> 1 [] c = "2" -> 2 [] c = "3" -> 3
    [] c = "4" -> 4 [] c = "5" -> 5 [] c = "6" -> 6 [] c = "7" -> 7
    [] c = "8" -> 8 [] c = "9" -> 9

\* str.isdigit() on a sequence of characters (false on the empty string).
IsDigitString(code) == Len(code) > 0 /\ \A i \in 1..Len(code) : code[i] \in Digits

\* _parse_naca4: (m, p, t), or the exception it raises.
parse_naca4(code) ==
  IF Len(code) /= 4 \/ ~IsDigitString(code)
  THEN [ok |-> FALSE, exc |-> "InvalidNACACode"]
  ELSE [ok |-> TRUE,
        m |-> Float(DigitValue(code[1])) \div 100,
        p |-> Float(DigitValue(code[2])) \div 10,
        t |-> Float(10 * DigitValue(code[3]) + DigitValue(code[4])) \div 100]

\* np.linspace(0.0, np.pi, n)[i], i = 0 .. n-1: the last sample is the stop itself.
LinspacePi(n, i) == IF i = n - 1 THEN PI ELSE (i * PI) \div (n - 1)

\* yt: the half thickness at x.
Thickness(t, x) ==
  Mul(5 * t,
      Mul(296900, Sqrt(x)) - Mul(126000, x) - Mul(351600, Mul(x, x))
      + Mul(284300, Mul(Mul(x, x), x)) - Mul(101500, Mul(Mul(Mul(x, x), x), x)))

\* yc: the camber line at x (zero unless m > 0 and p > 0).
CamberLine(m, p, x) ==
  IF ~(m > 0 /\ p > 0) THEN 0
  ELSE IF x < p THEN Mul(Div(m, Mul(p, p)), 2 * Mul(p, x) - Mul(x, x))
  ELSE Mul(Div(m, Mul(SCALE - p, SCALE - p)), (SCALE - 2 * p) + 2 * Mul(p, x) - Mul(x, x))

\* dyc_dx: the slope of the camber line at x.
CamberSlope(m, p, x) ==
  IF ~(m > 0 /\ p > 0) THEN 0
  ELSE IF x < p THEN Mul(Div(2 * m, Mul(p, p)), p - x)
  ELSE Mul(Div(2 * m, Mul(SCALE - p, SCALE - p)), p - x)

\* One chordwise station of naca4_coordinates: x, the camber yc, its slope and
\* the four surface coordinates.
Station(m, p, t, n, i) ==
  Only({Only({Only({[x |-> x, yc |-> yc, dyc |-> dyc,
                     xu |-> x - st, yu |-> yc + ct, xl |-> x + st, yl |-> yc - ct]
                    : st \in {Mul(yt, Sin(theta))}, ct \in {Mul(yt, Cos(theta))}})
              : yt \in {Thickness(t, x)}, yc \in {CamberLine(m, p, x)},
                dyc \in {CamberSlope(m, p, x)}, theta \in {Atan(CamberSlope(m, p, x))}})
        : x \in {(SCALE - Cos(LinspacePi(n, i))) \div 2}})

\* The body of naca4_coordinates (without lru_cache): the dictionary it builds, or the
\* exception it raises.
naca4_generate(code, points_per_surface) ==
  Only({IF ~parsed.ok THEN parsed
        ELSE IF points_per_surface < 3 THEN [ok |-> FALSE, exc |-> "ValueError"]
        ELSE Only({[ok |-> TRUE,
                    upper |-> [x |-> Reverse([i \in 1..n |-> st[i].xu]),
                               y |-> Reverse([i \in 1..n |-> st[i].yu])],
                    lower |-> [x |-> DropFirst([i \in 1..n |-> st[i].xl]),
                               y |-> DropFirst([i \in 1..n |-> st[i].yl])],
                    camber |-> [x |-> [i \in 1..n |-> st[i].x],
                                y |-> [i \in 1..n |-> st[i].yc],
                                dy_dx |-> [i \in 1..n |-> st[i].dyc]]]
                   : n \in {points_per_surface},
                     st \in {AsArray([i \in 1..points_per_surface |->
                                        Station(parsed.m, parsed.p, parsed.t,
                                                points_per_surface, i - 1)],
                                     points_per_surface)}})
        : parsed \in {parse_naca4(code)}})

(***************************************************************************)
(* solvers/vortex_panel.py                                                 *)
(***************************************************************************)
\* A polygon returned as it is, whether or not its ends meet.
CloseLoopUnchecked(x, y) == [ok |-> TRUE, x |-> x, y |-> y]

\* Lines 30-33: the first node is appended unless the last node is close to it.
CloseLoop(x, y) ==
  IF IsClose(x[1], Last(x)) /\ IsClose(y[1], Last(y))
  THEN [ok |-> TRUE, x |-> x, y |-> y]
  ELSE [ok |-> TRUE, x |-> Append(x, x[1]), y |-> Append(y, y[1])]

\* _build_closed_surface on (xu, yu), (xl, yl): the stitched node arrays, or the
\* IndexError of xl[-1] / xu[0] on an empty array.
build_closed_surface(upper, lower) ==
  IF Len(lower.x) = 0 \/ Len(upper.x) = 0 THEN [ok |-> FALSE, exc |-> "IndexError"]
  ELSE
    Only({Only({CloseLoop(x, y)
                : x \in {upper.x \o DropFirst(IF closedTE THEN lower.x
                                              ELSE Append(lower.x, upper.x[1]))},
                  y \in {upper.y \o DropFirst(IF closedTE THEN lower.y
                                              ELSE Append(lower.y, upper.y[1]))}})
          : closedTE \in {IsClose(Last(lower.x), upper.x[1])
                          /\ IsClose(Last(lower.y), upper.y[1])}})

\* len(length) in _panel_geometry: one panel per consecutive pair of nodes.
PanelCount(x) == Len(x) - 1

KuttaPanels(n_panels) == <<1, n_panels>>

\* solve_vortex_panel.  cp_x is control_points[:, 0], the midpoints of the
\* panels.  The least-squares solution is not computed: cp, gamma and cl are
\* carried as the linear system they are the solution of (system: nodes, angle
\* of attack, Kutta panels); cp and gamma keep the lengths the code gives them
\* (vt has n_panels entries, gamma one entry per column of A).
solve_vortex_panel(upper, lower, alpha_deg) ==
  Only({IF ~s.ok THEN s
        \* tangents[0, 0] of an empty array
        ELSE IF PanelCount(s.x) = 0 THEN [ok |-> FALSE, exc |-> "IndexError"]
        ELSE Only({[ok |-> TRUE,
                    cp_x |-> AsArray([k \in 1..n_panels |-> (s.x[k] + s.x[k + 1]) \div 2],
                                     n_panels),
                    cp |-> [len |-> n_panels],
                    gamma |-> [len |-> n_panels],
                    system |-> [x |-> s.x, y |-> s.y, alpha_deg |-> alpha_deg,
                                kutta |-> KuttaPanels(n_panels)]]
                   : n_panels \in {PanelCount(s.x)}})
        : s \in {build_closed_surface(upper, lower)}})

(***************************************************************************)
(* solvers/thin_airfoil.py                                                 *)
(***************************************************************************)
\* An _ensure_monotonic that asks for strictly increasing angles.
ensure_monotonic_strict(values) ==
  IF \E i \in 1..(Len(values) - 1) : values[i + 1] - values[i] <= 0
  THEN [ok |-> FALSE, exc |-> "ValueError"]
  ELSE [ok |-> TRUE, arr |-> values]

\* _ensure_monotonic: the array, or ValueError when some step is negative.
ensure_monotonic(values) ==
  IF \E i \in 1..(Len(values) - 1) : values[i + 1] - values[i] < 0
  THEN [ok |-> FALSE, exc |-> "ValueError"]
  ELSE [ok |-> TRUE, arr |-> values]

\* np.linspace(-10.0, 15.0, 30), the default angle samples.
DefaultCurve ==
  AsArray([i \in 1..30 |-> IF i = 30 THEN Float(15)
                           ELSE Float(-10) + ((i - 1) * Float(25)) \div 29], 30)

\* np.trapz(f, th) from sample i on.
RECURSIVE Trapz(_, _, _)
Trapz(f, th, i) ==
  IF i >= Len(f) THEN 0
  ELSE Mul(th[i + 1] - th[i], f[i + 1] + f[i]) \div 2 + Trapz(f, th, i + 1)

\* The zero-lift angle in radians (lines 39-41).
ZeroLiftAngle(camber_x, camber_dy_dx) ==
  Only({Only({-Div(Trapz(integrand, theta, 1), PI)
              : integrand \in {AsArray([i \in 1..Len(theta) |->
                                          Mul(camber_dy_dx[i], Cos(theta[i]))], Len(theta))}})
        : theta \in {AsArray([i \in 1..Len(camber_x) |-> Acos(SCALE - 2 * camber_x[i])],
                             Len(camber_x))}})

\* A lift coefficient that takes the angle in degrees for radians.
LiftCoefficientDegrees(alpha_deg, alpha_l0) == Mul(TWO_PI, alpha_deg - alpha_l0)

\* Cl = 2 pi (alpha - alpha_l0), alpha in degrees, alpha_l0 in radians.
LiftCoefficient(alpha_deg, alpha_l0) == Mul(TWO_PI, Radians(alpha_deg) - alpha_l0)

\* solve_thin_airfoil; alpha_curve_deg is None or a list of angles.
solve_thin_airfoil(alpha_deg, camber_x, camber_dy_dx, alpha_curve_deg) ==
  Only({IF ~mono.ok THEN mono
        ELSE Only({[ok |-> TRUE,
                    alpha_l0_deg |-> Degrees(alpha_l0),
                    cl |-> LiftCoefficient(alpha_deg, alpha_l0),
                    alpha_range_deg |-> mono.arr,
                    cl_curve |-> AsArray([i \in 1..Len(mono.arr) |->
                                            LiftCoefficient(mono.arr[i], alpha_l0)],
                                         Len(mono.arr))]
                   : alpha_l0 \in {ZeroLiftAngle(camber_x, camber_dy_dx)}})
        : mono \in {ensure_monotonic(IF alpha_curve_deg.is_none THEN DefaultCurve
                                     ELSE alpha_curve_deg.list)}})

(***************************************************************************)
(* main.py: the memoized generator, the helpers and the two handlers.      *)
(***************************************************************************)
\* lru_cache(maxsize=128) on naca4_coordinates.
CACHE_MAXSIZE == 128

\* A lookup that tells entries apart by the code alone.
CacheIndexByCode(c, key) ==
  IF \E i \in 1..Len(c) : c[i].key.code = key.code
  THEN CHOOSE i \in 1..Len(c) : c[i].key.code = key.code
  ELSE 0

\* The position of key in the cache (a sequence of entries, least recently used
\* first), or 0.
CacheIndex(c, key) ==
  IF \E i \in 1..Len(c) : c[i].key = key
  THEN CHOOSE i \in 1..Len(c) : c[i].key = key
  ELSE 0

RemoveAt(c, i) == SubSeq(c, 1, i - 1) \o SubSeq(c, i + 1, Len(c))

\* naca4_coordinates as callers see it, through lru_cache: a hit returns the
\* stored dictionary and makes the key the most recent; a miss runs the body,
\* stores its result (evicting the least recent entry of a full cache) and
\* stores nothing when the body raises.
naca4_coordinates(c, code, points_per_surface) ==
  Only({IF i > 0
        THEN [ok |-> TRUE, value |-> c[i].value, cache |-> Append(RemoveAt(c, i), c[i])]
        ELSE Only({IF ~r.ok THEN [ok |-> FALSE, exc |-> r.exc, cache |-> c]
                   ELSE [ok |-> TRUE,
                         value |-> [upper |-> r.upper, lower |-> r.lower, camber |-> r.camber],
                         cache |-> Append(IF Len(c) >= CACHE_MAXSIZE THEN DropFirst(c) ELSE c,
                                          [key |-> key,
                                           value |-> [upper |-> r.upper, lower |-> r.lower,
                                                      camber |-> r.camber]])]
                   : r \in {naca4_generate(code, points_per_surface)}})
        : key \in {[code |-> code, points |-> points_per_surface]},
          i \in {CacheIndex(c, [code |-> code, points |-> points_per_surface])}})

\* _geometry_for_panels: np.asarray(a, dtype=float) of a float array is the
\* array itself, so the dictionary returned holds the cached arrays.
geometry_for_panels(c, code, panel_count) ==
  naca4_coordinates(c, code, panel_count \div 2 + 1)

DEFAULT_ALPHA_RANGE ==
  <<Float(-10), Float(-6), Float(-2), Float(0), Float(2), Float(4), Float(8), Float(12)>>

BASELINE_ALPHAS == <<Float(-4), Float(0), Float(4), Float(8)>>

\* AnalysisRequest._default_alpha_curve
default_alpha_curve(value) == IF value.is_none THEN List(DEFAULT_ALPHA_RANGE) ELSE value

\* _baseline_error: the panel solves at the four baseline angles and the
\* thin-airfoil lift they are compared with; the r.m.s. of the differences is a
\* function of these.
baseline_error(c, code, panel_count, thin) ==
  Only({[panel |-> AsArray([i \in 1..Len(BASELINE_ALPHAS) |->
                              solve_vortex_panel(g.value.upper, g.value.lower,
                                                 BASELINE_ALPHAS[i]).system],
                           Len(BASELINE_ALPHAS)),
         thin_cl |-> AsArray([i \in 1..Len(BASELINE_ALPHAS) |->
                                LiftCoefficient(BASELINE_ALPHAS[i], Radians(thin.alpha_l0_deg))],
                             Len(BASELINE_ALPHAS)),
         cache |-> g.cache]
        : g \in {geometry_for_panels(c, code, panel_count)}})

\* _estimate_memory_bytes: nbytes of three float64 arrays.
estimate_memory_bytes(panel) == 8 * (Len(panel.cp_x) + panel.cp.len + panel.gamma.len)

\* The body of the response of run_analysis, but for the elapsed time.
AnalysisBody(request, g, thin, panel, base) ==
  [kind |-> "ok", status |-> 200,
   airfoil |-> [upper |-> g.value.upper, lower |-> g.value.lower,
                camber |-> [x |-> g.value.camber.x, y |-> g.value.camber.y]],
   thin_airfoil |-> [alpha_l0_deg |-> thin.alpha_l0_deg, cl |-> thin.cl,
                     alpha_range |-> thin.alpha_range_deg, cl_curve |-> thin.cl_curve],
   vortex_panel |-> [cp_x |-> panel.cp_x, cp |-> panel.cp, system |-> panel.system],
   cl_error_baseline |-> [panel |-> base.panel, thin_cl |-> base.thin_cl],
   memory_bytes |-> estimate_memory_bytes(panel),
   panel_count |-> request.panel_count,
   cache |-> base.cache]

\* run_analysis up to the measurement of the elapsed time: what the handler
\* raises, or the pieces of its response, and the cache it leaves.  Only
\* InvalidNACACode is caught (and only around _geometry_for_panels).
run_analysis(c, request) ==
  Only({IF ~g.ok
        THEN IF g.exc = "InvalidNACACode"
             THEN [kind |-> "http_error", status |-> 400, cache |-> g.cache]
             ELSE [kind |-> "unhandled", exc |-> g.exc, cache |-> g.cache]
        ELSE Only({IF ~thin.ok THEN [kind |-> "unhandled", exc |-> thin.exc, cache |-> g.cache]
                   ELSE IF ~panel.ok
                        THEN [kind |-> "unhandled", exc |-> panel.exc, cache |-> g.cache]
                   ELSE Only({AnalysisBody(request, g, thin, panel, base)
                              : base \in {baseline_error(g.cache, request.naca_code,
                                                         request.panel_count, thin)}})
                   : thin \in {solve_thin_airfoil(request.alpha_deg, g.value.camber.x,
                                                  g.value.camber.dy_dx, request.alpha_curve)},
                     panel \in {solve_vortex_panel(g.value.upper, g.value.lower,
                                                   request.alpha_deg)}})
        : g \in {geometry_for_panels(c, request.naca_code, request.panel_count)}})

\* The response the client gets from run_analysis, elapsed_ms being the
\* difference of the two time.perf_counter() readings.
analysis_response(out, elapsed_ms) ==
  IF out.kind = "ok"
  THEN [kind |-> "ok", status |-> 200,
        airfoil |-> out.airfoil,
        thin_airfoil |-> out.thin_airfoil,
        vortex_panel |-> out.vortex_panel,
        metrics |-> [solver_time_ms |-> elapsed_ms,
                     cl_error_baseline |-> out.cl_error_baseline,
                     memory_bytes |-> out.memory_bytes,
                     panel_count |-> out.panel_count]]
  ELSE IF out.kind = "http_error" THEN [kind |-> "http_error", status |-> out.status]
  ELSE [kind |-> "unhandled", exc |-> out.exc]

\* _dxf_from_coordinates: the vertices of the LWPOLYLINE (each written with six
\* decimals, the resolution of the fixed-point numbers) and the count in the
\* header.
dxf_from_coordinates(upper, lower, chord, thickness_scale) ==
  Only({[count |-> Len(coords) + 1, vertices |-> Append(coords, coords[1])]
        : coords \in {AsArray([i \in 1..Len(upper.x) |->
                                 <<Mul(upper.x[i], chord),
                                   Mul(Mul(upper.y[i], chord), thickness_scale)>>],
                              Len(upper.x))
                      \o DropFirstLast(AsArray([i \in 1..Len(lower.x) |->
                                 <<Mul(lower.x[i], chord),
                                   Mul(Mul(lower.y[i], chord), thickness_scale)>>],
                              Len(lower.x)))}})

\* export_dxf: no exception is caught.
export_dxf(c, query) ==
  Only({IF ~g.ok THEN [response |-> [kind |-> "unhandled", exc |-> g.exc], cache |-> g.cache]
        ELSE [response |-> [kind |-> "ok", status |-> 200,
                            dxf |-> dxf_from_coordinates(g.value.upper, g.value.lower,
                                                         query.chord, query.thickness_scale),
                            filename |-> [naca_code |-> query.naca_code,
                                          \* f"{chord:.2f}": rounded to hundredths
                                          chord |-> ((query.chord + 5000) \div 10000) * 10000]],
              cache |-> g.cache]
        : g \in {geometry_for_panels(c, query.naca_code, query.panel_count)}})

(***************************************************************************)
(* Request validation (AnalysisRequest, the Query parameters of export_dxf) *)
(***************************************************************************)
MIN_PANEL_COUNT == 20
MAX_PANEL_COUNT == 100
EXPORT_MAX_PANEL_COUNT == 200

\* re.match(r"^\d{4}$", code): four digits; "$" also matches before one
\* trailing newline.
MatchesCodePattern(code) ==
  /\ Len(code) \in {4, 5}
  /\ \A i \in 1..4 : code[i] \in Digits
  /\ Len(code) = 5 => code[5] = "\n"

\* The constraints of AnalysisRequest's fields.
ValidAnalysisRequest(r) ==
  /\ MatchesCodePattern(r.naca_code)
  /\ r.panel_count >= MIN_PANEL_COUNT /\ r.panel_count <= MAX_PANEL_COUNT
  /\ r.chord > 0
  /\ r.thickness_scale > Float(1) \div 10

\* The constraints of export_dxf's query parameters.
ValidExportQuery(q) ==
  /\ MatchesCodePattern(q.naca_code)
  /\ q.panel_count >= MIN_PANEL_COUNT /\ q.panel_count <= EXPORT_MAX_PANEL_COUNT
  /\ q.chord > 0
  /\ q.thickness_scale > Float(1) \div 10

(***************************************************************************)
(* Bounds and the inputs drawn within them.                                *)
(***************************************************************************)
\* requests served in one behaviour
MaxRequests == 2
\* largest panel_count requested (the smallest tried is MIN_PANEL_COUNT - 1)
MaxPanelCount == 22
\* longest upper / lower surface handed to solve_vortex_panel directly
MaxUpperLen == 3
MaxLowerLen == 2
\* longest angle list handed to solve_thin_airfoil directly
MaxCurveLen == 3

NACA0012 == <<"0", "0", "1", "2">>
NACA2412 == <<"2", "4", "1", "2">>
NACA0000 == <<"0", "0", "0", "0">>
NACA2400 == <<"2", "4", "0", "0">>
NACA0012NL == <<"0", "0", "1", "2", "\n">>

Codes == {NACA0012, NACA2412, NACA0000, NACA2400, NACA0012NL}

PanelCounts == (MIN_PANEL_COUNT - 1)..MaxPanelCount

UnsortedCurve == <<Float(4), Float(0)>>
SortedCurve == <<Float(0), Float(0), Float(4)>>

\* Analysis requests as received: a thick and a flat symmetric airfoil at every
\* panel count, the other codes at the smallest one, and the two explicit angle
\* lists on one airfoil.
AnalysisRequests ==
  [naca_code : {NACA0012, NACA0000}, alpha_deg : {Float(4)}, panel_count : PanelCounts,
   chord : {Float(1)}, thickness_scale : {Float(1)}, alpha_curve : {None}]
  \cup [naca_code : {NACA2412, NACA2400, NACA0012NL}, alpha_deg : {Float(4)},
        panel_count : {MIN_PANEL_COUNT}, chord : {Float(1)}, thickness_scale : {Float(1)},
        alpha_curve : {None}]
  \cup [naca_code : {NACA2412}, alpha_deg : {Float(4)}, panel_count : {MIN_PANEL_COUNT},
        chord : {Float(1)}, thickness_scale : {Float(1)},
        alpha_curve : {List(UnsortedCurve), List(SortedCurve)}]

ExportQueries ==
  [naca_code : Codes, panel_count : {MIN_PANEL_COUNT - 1, MIN_PANEL_COUNT},
   chord : {Float(2)}, thickness_scale : {Float(3) \div 2}]

\* time.perf_counter() differences
ElapsedReadings == {Float(1), Float(2)}

(***************************************************************************)
(* The server: the generator's cache and the log of requests served.       *)
(* Direct calls of the two solvers: the call, the stitched polygon (x, y   *)
(* after line 74) and what the call returned or raised.                    *)
(***************************************************************************)
VARIABLES cache, log, call, surface, ret

vars == <<cache, log, call, surface, ret>>

Init ==
  /\ cache = << >>
  /\ log = << >>
  /\ call = [fn |-> "none"]
  /\ surface = [ok |-> FALSE, exc |-> "none"]
  /\ ret = [ok |-> FALSE, exc |-> "none"]

\* POST /api/analysis
Analysis(req) ==
  /\ Len(log) < MaxRequests
  /\ ValidAnalysisRequest(req)
  /\ \E out \in {run_analysis(cache, [req EXCEPT !.alpha_curve = default_alpha_curve(req.alpha_curve)])} :
       /\ cache' = out.cache
       /\ \E elapsed_ms \in ElapsedReadings :
            log' = Append(log, [endpoint |-> "analysis", request |-> req,
                                response |-> analysis_response(out, elapsed_ms)])
  /\ UNCHANGED <<call, surface, ret>>

\* GET /api/export/dxf
Export(q) ==
  /\ Len(log) < MaxRequests
  /\ ValidExportQuery(q)
  /\ \E out \in {export_dxf(cache, q)} :
       /\ cache' = out.cache
       /\ log' = Append(log, [endpoint |-> "export", request |-> q, response |-> out.response])
  /\ UNCHANGED <<call, surface, ret>>

Next ==
  \/ \E req \in AnalysisRequests : Analysis(req)
  \/ \E q \in ExportQueries : Export(q)

Spec == Init /\ [][Next]_vars

(***************************************************************************)
(* solve_vortex_panel called directly on small point sequences.            *)
(***************************************************************************)
\* Two trailing-edge points 1e-5 apart (np.isclose holds one way round only),
\* the leading edge and a point above the chord.
TE1 == <<999009, 0>>
TE2 == <<998999, 0>>
LE == <<0, 0>>
TOP == <<Float(1) \div 2, Float(1) \div 10>>

Points == {TE1, TE2, LE, TOP}

PointSequences(maxLen) == UNION {[1..n -> Points] : n \in 0..maxLen}

\* The pair of coordinate arrays (x, y) of a sequence of points.
Arrays(ps) == [x |-> [i \in 1..Len(ps) |-> ps[i][1]], y |-> [i \in 1..Len(ps) |-> ps[i][2]]]

PanelInit ==
  /\ cache = << >>
  /\ log = << >>
  /\ call \in {[fn |-> "solve_vortex_panel", done |-> FALSE,
                upper |-> Arrays(u), lower |-> Arrays(l), alpha_deg |-> Float(4)]
               : u \in PointSequences(MaxUpperLen), l \in PointSequences(MaxLowerLen)}
  /\ surface = [ok |-> FALSE, exc |-> "none"]
  /\ ret = [ok |-> FALSE, exc |-> "none"]

\* solve_vortex_panel(upper, lower, alpha_deg): surface is (x, y) of line 74.
SolvePanel ==
  /\ call.fn = "solve_vortex_panel" /\ ~call.done
  /\ call' = [call EXCEPT !.done = TRUE]
  /\ surface' = build_closed_surface(call.upper, call.lower)
  /\ ret' = solve_vortex_panel(call.upper, call.lower, call.alpha_deg)
  /\ UNCHANGED <<cache, log>>

PanelNext == SolvePanel

PanelSpec == PanelInit /\ [][PanelNext]_vars

(***************************************************************************)
(* solve_thin_airfoil called directly on small angle lists.                *)
(***************************************************************************)
Angles == {Float(-2), Float(1) \div 2, Float(4)}

AngleLists(maxLen) == UNION {[1..n -> Angles] : n \in 0..maxLen}

NACA4412 == <<"4", "4", "1", "2">>

\* Camber lines of the generator on five stations, and one that is no NACA
\* camber line.
Cambers ==
  {[x |-> g.camber.x, dy_dx |-> g.camber.dy_dx]
   : g \in {naca4_generate(code, 5) : code \in {NACA0012, NACA2412, NACA4412}}}
  \cup {[x |-> <<0, Float(1) \div 2, Float(1)>>,
         dy_dx |-> <<Float(1) \div 10, Float(-1) \div 5, Float(3) \div 10>>]}

ThinInit ==
  /\ cache = << >>
  /\ log = << >>
  /\ call \in {[fn |-> "solve_thin_airfoil", done |-> FALSE, alpha_deg |-> a,
                camber_x |-> c.x, camber_dy_dx |-> c.dy_dx, alpha_curve_deg |-> curve]
               : a \in {Float(0), Float(4)}, c \in Cambers,
                 curve \in {List(a) : a \in AngleLists(MaxCurveLen)} \cup {None}}
  /\ surface = [ok |-> FALSE, exc |-> "none"]
  /\ ret = [ok |-> FALSE, exc |-> "none"]

\* solve_thin_airfoil(alpha_deg, camber_x, camber_dy_dx, alpha_curve_deg)
SolveThin ==
  /\ call.fn = "solve_thin_airfoil" /\ ~call.done
  /\ call' = [call EXCEPT !.done = TRUE]
  /\ ret' = solve_thin_airfoil(call.alpha_deg, call.camber_x, call.camber_dy_dx,
                               call.alpha_curve_deg)
  /\ UNCHANGED <<cache, log, surface>>

ThinNext == SolveThin

ThinSpec == ThinInit /\ [][ThinNext]_vars

(***************************************************************************)
(* What the claims speak of.                                               *)
(***************************************************************************)
AnalysisServed(i) == log[i].endpoint = "analysis" /\ log[i].response.kind = "ok"

PanelCalled == call.fn = "solve_vortex_panel" /\ call.done

ThinCalled == call.fn = "solve_thin_airfoil" /\ call.done

Sorted(a) == \A i \in 1..(Len(a) - 1) : a[i] <= a[i + 1]

\* The angle list a direct call of solve_thin_airfoil works on.
GivenCurve == IF call.alpha_curve_deg.is_none THEN DefaultCurve ELSE call.alpha_curve_deg.list

\* Twice the signed area of the polygon with nodes (x[k], y[k]), from edge k on.
RECURSIVE Shoelace(_, _, _)
Shoelace(x, y, k) ==
  IF k >= Len(x) THEN 0
  ELSE Mul(x[k], y[k + 1]) - Mul(x[k + 1], y[k]) + Shoelace(x, y, k + 1)

\* The distinct points handed to a direct call of solve_vortex_panel.
InputPoints ==
  {<<call.upper.x[i], call.upper.y[i]>> : i \in 1..Len(call.upper.x)}
  \cup {<<call.lower.x[i], call.lower.y[i]>> : i \in 1..Len(call.lower.x)}

\* A response without the reading of the clock.
Untimed(r) == IF r.kind = "ok" /\ "metrics" \in DOMAIN r
              THEN [r EXCEPT !.metrics.solver_time_ms = 0] ELSE r

\* The response to each request when nothing was served before it.
FreshResponses ==
  {[endpoint |-> "analysis", request |-> req,
    response |-> Only({analysis_response(out, 0)
                       : out \in {run_analysis(<< >>, [req EXCEPT !.alpha_curve =
                                                         default_alpha_curve(@)])}})]
   : req \in {r \in AnalysisRequests : ValidAnalysisRequest(r)}}
  \cup {[endpoint |-> "export", request |-> q, response |-> export_dxf(<< >>, q).response]
        : q \in {r \in ExportQueries : ValidExportQuery(r)}}

\* What the generator computes for each code it accepts and each number of points.
Generated ==
  {Only({[key |-> [code |-> code, points |-> pc \div 2 + 1],
          value |-> [upper |-> r.upper, lower |-> r.lower, camber |-> r.camber]]
         : r \in {naca4_generate(code, pc \div 2 + 1)}})
   : code \in {c \in Codes : parse_naca4(c).ok}, pc \in PanelCounts}

\* Every entry of the generator's cache holds what the generator computes for its key.
CacheIntact == \A k \in 1..Len(cache) : cache[k] \in Generated

(***************************************************************************)
(* The claims.                                                             *)
(***************************************************************************)
\* C1: every analysis served solves on exactly panel_count panels: the polygon has
\* panel_count edges, and cp, cp_x and gamma (three float64 arrays, counted by
\* memory_bytes) have panel_count entries each.
C1_PanelCountExact ==
  \A i \in 1..Len(log) :
    AnalysisServed(i) =>
      /\ PanelCount(log[i].response.vortex_panel.system.x) = log[i].request.panel_count
      /\ Len(log[i].response.vortex_panel.cp_x) = log[i].request.panel_count
      /\ log[i].response.vortex_panel.cp.len = log[i].request.panel_count
      /\ log[i].response.metrics.memory_bytes = 8 * 3 * log[i].request.panel_count

\* C2: the polygon handed to _panel_geometry is counter-clockwise, whatever the
\* order of the points supplied: its signed area is never negative.
C2_CounterClockwise ==
  (PanelCalled /\ surface.ok) => Shoelace(surface.x, surface.y, 1) >= 0

\* C3: solve_thin_airfoil returns a result exactly when the angle list is sorted
\* ascending; otherwise it raises ValueError and nothing else comes back; a result
\* carries the list as given and a lift curve of the same length.
C3_SortedOrNoResult ==
  ThinCalled =>
    /\ ret.ok <=> Sorted(GivenCurve)
    /\ ~ret.ok => ret = [ok |-> FALSE, exc |-> "ValueError"]
    /\ ret.ok => /\ ret.alpha_range_deg = GivenCurve
                 /\ Len(ret.cl_curve) = Len(GivenCurve)

\* C3's case: a call with a list that is not sorted, which raised.
C3_UnsortedRaised ==
  ThinCalled /\ ~call.alpha_curve_deg.is_none /\ ~Sorted(call.alpha_curve_deg.list) /\ ~ret.ok

\* C4: the lift curve is linear with slope 2 pi per radian, between any two
\* entries of cl_curve and between cl and any entry (two units of the last
\* digit allowed for rounding), and so it never decreases.
C4_LinearLift ==
  (ThinCalled /\ ret.ok) =>
    /\ \A i, j \in 1..Len(ret.cl_curve) :
         Abs((ret.cl_curve[j] - ret.cl_curve[i])
             - Mul(TWO_PI, Radians(ret.alpha_range_deg[j]) - Radians(ret.alpha_range_deg[i]))) <= 2
    /\ \A i \in 1..Len(ret.cl_curve) :
         Abs((ret.cl - ret.cl_curve[i])
             - Mul(TWO_PI, Radians(call.alpha_deg) - Radians(ret.alpha_range_deg[i]))) <= 2
    /\ \A i \in 1..(Len(ret.cl_curve) - 1) : ret.cl_curve[i] <= ret.cl_curve[i + 1]

\* C4's case: a result for a cambered line whose curve rises between two angles.
C4_RisingCurve ==
  /\ ThinCalled /\ ret.ok /\ ret.alpha_l0_deg /= 0
  /\ Len(ret.cl_curve) >= 2 /\ ret.cl_curve[1] < ret.cl_curve[2]

C6_FailuresMapped ==
  \A i \in 1..Len(log) :
    /\ log[i].response.kind /= "unhandled"
    /\ (log[i].endpoint = "analysis" /\ ~log[i].request.alpha_curve.is_none
        /\ ~Sorted(log[i].request.alpha_curve.list))
         => (log[i].response.kind = "http_error" /\ log[i].response.status \in 400..499)

\* C7: for non-empty upper and lower sequences _build_closed_surface returns a
\* polygon whose first and last nodes coincide, with at most one node more than
\* the concatenation of the upper points and the lower points after the first.
C7_AlwaysClosed ==
  (PanelCalled /\ Len(call.upper.x) > 0 /\ Len(call.lower.x) > 0) =>
    /\ surface.ok
    /\ IsClose(surface.x[1], Last(surface.x)) /\ IsClose(surface.y[1], Last(surface.y))
    /\ Len(surface.x) - (Len(call.upper.x) + Len(call.lower.x) - 1) \in {0, 1}

\* C7's case: the lower surface ends away from the upper surface's first point,
\* and one node was appended.
C7_OpenTrailingEdge ==
  /\ PanelCalled /\ Len(call.upper.x) > 1 /\ Len(call.lower.x) > 1
  /\ ~IsClose(Last(call.lower.x), call.upper.x[1])
  /\ surface.ok /\ Len(surface.x) = Len(call.upper.x) + Len(call.lower.x)

\* C8: a panel solve on inputs with fewer than three distinct points fails with
\* a geometry error: no other exception, and no result.
C8_TooFewPointsRejected ==
  (PanelCalled /\ Cardinality(InputPoints) < 3) => (~ret.ok /\ ret.exc = "GeometryError")

\* C9: an analysis of a code whose thickness digits are 00 yields an error and
\* no vortex-panel result.
C9_ZeroThicknessRejected ==
  \A i \in 1..Len(log) :
    (log[i].endpoint = "analysis" /\ log[i].request.naca_code[3] = "0"
     /\ log[i].request.naca_code[4] = "0")
      => log[i].response.kind = "http_error"

\* C10: the two panels of the Kutta equation are the first panel of the upper
\* surface (upper[0] to upper[1]) and the last panel of the lower surface
\* (lower[-2] to lower[-1]), the two panels that meet the trailing edge.
C10_KuttaPanelsAtTrailingEdge ==
  \A i \in 1..Len(log) :
    AnalysisServed(i) =>
      \E sys \in {log[i].response.vortex_panel.system},
         up \in {log[i].response.airfoil.upper}, lo \in {log[i].response.airfoil.lower} :
        /\ <<sys.x[sys.kutta[1]], sys.y[sys.kutta[1]]>> = <<up.x[1], up.y[1]>>
        /\ <<sys.x[sys.kutta[1] + 1], sys.y[sys.kutta[1] + 1]>> = <<up.x[2], up.y[2]>>
        /\ <<sys.x[sys.kutta[2]], sys.y[sys.kutta[2]]>>
             = <<lo.x[Len(lo.x) - 1], lo.y[Len(lo.y) - 1]>>
        /\ <<sys.x[sys.kutta[2] + 1], sys.y[sys.kutta[2] + 1]>> = <<Last(lo.x), Last(lo.y)>>

\* The nodes (x[k], y[k]) of a pair of coordinate arrays.
Nodes(a) == {<<a.x[k], a.y[k]>> : k \in 1..Len(a.x)}

\* C11: every node the generator produced for the upper and the lower surface
\* of an analysis served is a node of the polygon the panel solve works on.
C11_NoNodeLost ==
  \A i \in 1..Len(log) :
    AnalysisServed(i) =>
      (Nodes(log[i].response.airfoil.upper) \cup Nodes(log[i].response.airfoil.lower))
        \subseteq Nodes(log[i].response.vortex_panel.system)

====
